---- MODULE Spec2Model ----
(***************************************************************************)
(* Model of the log analytics core: app/core/analyzer.py (LogAnalyzer) and *)
(* app/core/log_monitor.py (LogHandler, start_monitoring).                 *)
(*                                                                         *)
(* Text is modelled character by character: a string is a sequence of     *)
(* one-character strings, a file is the sequence of its characters and a   *)
(* file offset counts characters.                                          *)
(***************************************************************************)
EXTENDS Integers, Sequences, FiniteSets, TLC

\* ------------------------------------------------------------------ bounds

\* Number of writes, deletions and creations the environment makes in the
\* watched directory.
MaxWrites == 2
\* Number of resolve calls made on one LogAnalyzer in SpecGeo.
MaxCalls == 3
\* Number of rows of the table a LogAnalyzer is built on in SpecLoad.
MaxRows == 2

\* ------------------------------------------------------------ Python values

\* A Python str is the sequence of its characters.  Values that are not str
\* are one-element sequences holding a tag no character equals.
None == <<"None">>
NaN == <<"nan">>
IntZero == <<"int:0">>
IntFive == <<"int:5">>
\* pandas.NA, the missing value of the nullable dtypes.
NA == <<"NA">>
NonStr == {None, NaN, IntZero, IntFive, NA}

\* isinstance(v, str)
IsStr(v) == v \notin NonStr

\* bool(v) is False: the empty str, None and 0 (NaN is truthy).
Falsy(v) == v \in {<<>>, None, IntZero}

\* bool(v) raises TypeError: pandas.NA has no truth value.
TruthRaises(v) == v = NA

SP == " "
NL == "\n"
Whitespace == {SP, NL}

\* ------------------------------------------------------------- str helpers

\* The k-th smallest element of a finite set of integers (k from 1).
Nth(S, k) == CHOOSE x \in S : Cardinality({y \in S : y < x}) = k - 1

\* str.strip(): drop leading and trailing whitespace.
Strip(s) ==
    IF \A i \in 1..Len(s) : s[i] \in Whitespace THEN <<>>
    ELSE LET first == CHOOSE i \in 1..Len(s) :
                          /\ s[i] \notin Whitespace
                          /\ \A j \in 1..(i - 1) : s[j] \in Whitespace
             last_ == CHOOSE i \in 1..Len(s) :
                          /\ s[i] \notin Whitespace
                          /\ \A j \in (i + 1)..Len(s) : s[j] \in Whitespace
         IN  SubSeq(s, first, last_)

\* str.split() with no separator: the maximal runs of non-whitespace.
Split(s) ==
    LET starts == {i \in 1..Len(s) :
                      s[i] \notin Whitespace /\ (i = 1 \/ s[i - 1] \in Whitespace)}
        ends == {i \in 1..Len(s) :
                    s[i] \notin Whitespace /\ (i = Len(s) \/ s[i + 1] \in Whitespace)}
    IN  [k \in 1..Cardinality(starts) |-> SubSeq(s, Nth(starts, k), Nth(ends, k))]

RECURSIVE SplitOn(_, _, _, _)
\* str.split(sep) for a one-character sep: empty fields are kept.
SplitOn(s, sep, acc, cur) ==
    IF s = <<>>
    THEN Append(acc, cur)
    ELSE IF Head(s) = sep
         THEN SplitOn(Tail(s), sep, Append(acc, cur), <<>>)
         ELSE SplitOn(Tail(s), sep, acc, Append(cur, Head(s)))

\* str.endswith(suffix)
EndsWith(s, suffix) ==
    /\ Len(s) >= Len(suffix)
    /\ SubSeq(s, Len(s) - Len(suffix) + 1, Len(s)) = suffix

\* substring containment: pat occurs in s.
Contains(s, pat) ==
    \E i \in 1..(Len(s) - Len(pat) + 1) : SubSeq(s, i, i + Len(pat) - 1) = pat

\* ------------------------------------------------------------------- int()

DigitChars == {"0", "1", "2", "3", "4", "5", "6", "7", "8", "9"}

DigitVal(c) ==
    CASE c = "0" -> 0 [] c = "1" -> 1 [] c = "2" -> 2 [] c = "3" -> 3
      [] c = "4" -> 4 [] c = "5" -> 5 [] c = "6" -> 6 [] c = "7" -> 7
      [] c = "8" -> 8 [] c = "9" -> 9

\* The decimal literal int() accepts after the sign: digits, with single
\* underscores allowed between digits.
IsDecimalBody(s) ==
    /\ s # <<>>
    /\ \A i \in 1..Len(s) : s[i] \in DigitChars \cup {"_"}
    /\ s[1] \in DigitChars
    /\ s[Len(s)] \in DigitChars
    /\ \A i \in 1..(Len(s) - 1) : ~(s[i] = "_" /\ s[i + 1] = "_")

RECURSIVE DecimalValue(_, _)
DecimalValue(s, acc) ==
    IF s = <<>> THEN acc
    ELSE IF Head(s) = "_" THEN DecimalValue(Tail(s), acc)
         ELSE DecimalValue(Tail(s), 10 * acc + DigitVal(Head(s)))

\* int(s) for a str s: surrounding whitespace is ignored, one sign is
\* allowed.  ok = FALSE stands for ValueError.
PyInt(s) ==
    LET t == Strip(s)
        signed == t # <<>> /\ Head(t) \in {"+", "-"}
        body == IF signed THEN Tail(t) ELSE t
    IN  IF IsDecimalBody(body)
        THEN [ok |-> TRUE,
              val |-> IF signed /\ Head(t) = "-"
                      THEN 0 - DecimalValue(body, 0)
                      ELSE DecimalValue(body, 0)]
        ELSE [ok |-> FALSE, val |-> 0]

\* ------------------------------------------------------- LogAnalyzer: geo

Unknown == <<"U", "n", "k", "n", "o", "w", "n">>
US == <<"U", "S">>
UK == <<"U", "K">>
IN_ == <<"I", "N">>
CA == <<"C", "A">>
BR == <<"B", "R">>

\* COUNTRY_MAP in the dict's insertion order: <<low, high, country>>.
COUNTRY_MAP ==
    << <<0, 50, US>>, <<50, 100, UK>>, <<100, 150, IN_>>, <<150, 200, CA>> >>

\* An exception leaving a function, in place of the value it would return.
Propagates == <<"raise">>

\* Line 103: the exceptions _map_ip_to_country catches.
MapCaught == {"ValueError", "IndexError", "AttributeError"}

\* The exception line 99 raises: AttributeError for a value without split
\* (not a str), ValueError when int() rejects the first field ("no": none).
map_ip_raises(ip) ==
    IF ~IsStr(ip) THEN "AttributeError"
    ELSE IF ~PyInt(SplitOn(ip, ".", <<>>, <<>>)[1]).ok THEN "ValueError"
    ELSE "no"

\* Lines 100-102 and 105: the country of the first range of COUNTRY_MAP
\* holding first_octet, 'Unknown' when no range holds it.
country_of_octet(first_octet) ==
    LET hits == {i \in 1..Len(COUNTRY_MAP) :
                    /\ COUNTRY_MAP[i][1] <= first_octet
                    /\ first_octet < COUNTRY_MAP[i][2]}
    IN  IF hits = {} THEN Unknown
        ELSE COUNTRY_MAP[CHOOSE i \in hits : \A j \in hits : i <= j][3]

\* Lines 98-105 once line 99 has raised, or not: the exceptions line 103
\* catches give 'Unknown'.
map_outcome(ip, raised) ==
    IF raised = "no"
    THEN country_of_octet(PyInt(SplitOn(ip, ".", <<>>, <<>>)[1]).val)
    ELSE IF raised \in MapCaught THEN Unknown
    ELSE Propagates

\* _map_ip_to_country: the first range holding the first octet, else
\* 'Unknown'.
map_ip_to_country(ip) == map_outcome(ip, map_ip_raises(ip))

\* The addresses used as inputs.
IP_10 == <<"1", "0", ".", "0", ".", "0", ".", "1">>
IP_75 == <<"7", "5", ".", "1", ".", "1", ".", "1">>
IP_150 == <<"1", "5", "0", ".", "1", ".", "1", ".", "1">>
IP_200 == <<"2", "0", "0", ".", "1", ".", "1", ".", "1">>
IP_abc == <<"a", "b", "c">>
IP_10x == <<"1", "0", ".", "x">>

\* State of the GeoLite2 resource on disk when _init_geoip runs.
GeoEnvs == {"ok", "absent", "corrupt", "noPackage"}

NoReader == "None"
Reader == "Reader"

\* _init_geoip: the value of _geoip_reader after the call.  The attribute is
\* assigned only when the package imports, the file exists and
\* database.Reader opens it; on every other path it is left as it was (None).
init_geoip(env) ==
    IF env = "ok" THEN Reader ELSE NoReader

\* The geoip_reader property: initialises whenever the attribute is None.
geoip_reader(reader, env) ==
    IF reader = NoReader THEN init_geoip(env) ELSE reader

\* Number of _init_geoip calls one read of the property makes.
InitCalls(reader) == IF reader = NoReader THEN 1 ELSE 0

\* reader.country(ip) on the database the model installs: an address the
\* database does not hold (or a string that is no address) raises, an entry
\* may carry no iso_code.
DbCountry(ip) ==
    CASE ip = IP_75 -> [raised |-> FALSE, iso_code |-> US]
      [] ip = IP_200 -> [raised |-> FALSE, iso_code |-> BR]
      [] ip = IP_150 -> [raised |-> FALSE, iso_code |-> None]
      [] OTHER -> [raised |-> TRUE, iso_code |-> None]

\* A plausible slip: 'Unknown' returned as soon as the lookup gives no
\* code, without the fallback.
resolve_country_no_fallthrough(reader, env, ip) ==
    IF TruthRaises(ip)
    THEN [country |-> Propagates, reader |-> reader, inits |-> 0, lookups |-> 0,
          fallback |-> FALSE]
    ELSE IF Falsy(ip) \/ ~IsStr(ip)
    THEN [country |-> Unknown, reader |-> reader, inits |-> 0, lookups |-> 0,
          fallback |-> FALSE]
    ELSE LET r == geoip_reader(reader, env)
             response == DbCountry(ip)
         IN  IF r # NoReader /\ ~response.raised
             THEN [country |-> IF Falsy(response.iso_code) THEN Unknown
                               ELSE response.iso_code,
                   reader |-> r, inits |-> InitCalls(reader), lookups |-> 1,
                   fallback |-> FALSE]
             ELSE [country |-> map_ip_to_country(ip), reader |-> r,
                   inits |-> InitCalls(reader),
                   lookups |-> IF r # NoReader THEN 1 ELSE 0,
                   fallback |-> TRUE]

\* _resolve_country: the country returned, the reader attribute after, the
\* number of _init_geoip and reader.country calls made, and whether
\* _map_ip_to_country was called.  An exception of reader.country is caught
\* by line 90; one raised by the truth test of line 80 leaves the function.
resolve_country(reader, env, ip) ==
    IF TruthRaises(ip)
    THEN [country |-> Propagates, reader |-> reader, inits |-> 0, lookups |-> 0,
          fallback |-> FALSE]
    ELSE IF Falsy(ip) \/ ~IsStr(ip)
    THEN [country |-> Unknown, reader |-> reader, inits |-> 0, lookups |-> 0,
          fallback |-> FALSE]
    ELSE LET r == geoip_reader(reader, env)
             response == DbCountry(ip)
         IN  IF r # NoReader /\ ~response.raised /\ ~Falsy(response.iso_code)
             THEN [country |-> response.iso_code, reader |-> r,
                   inits |-> InitCalls(reader), lookups |-> 1,
                   fallback |-> FALSE]
             ELSE [country |-> map_ip_to_country(ip), reader |-> r,
                   inits |-> InitCalls(reader),
                   lookups |-> IF r # NoReader THEN 1 ELSE 0,
                   fallback |-> TRUE]


\* ------------------------------------------------ LogAnalyzer: enrichment

Range(f) == {f[i] : i \in DOMAIN f}

REQUIRED_COLS == <<"time", "ip", "method", "resource", "status">>

\* CONVERSION_PATTERNS: the alternatives of r'demo|promo|job|schedule'.
CONVERSION_PATTERNS ==
    { <<"d", "e", "m", "o">>, <<"p", "r", "o", "m", "o">>, <<"j", "o", "b">>,
      <<"s", "c", "h", "e", "d", "u", "l", "e">> }

\* str.lower() on one character.
LowerChar(c) ==
    CASE c = "A" -> "a" [] c = "B" -> "b" [] c = "C" -> "c" [] c = "D" -> "d"
      [] c = "E" -> "e" [] c = "F" -> "f" [] c = "G" -> "g" [] c = "H" -> "h"
      [] c = "I" -> "i" [] c = "J" -> "j" [] c = "K" -> "k" [] c = "L" -> "l"
      [] c = "M" -> "m" [] c = "N" -> "n" [] c = "O" -> "o" [] c = "P" -> "p"
      [] c = "Q" -> "q" [] c = "R" -> "r" [] c = "S" -> "s" [] c = "T" -> "t"
      [] c = "U" -> "u" [] c = "V" -> "v" [] c = "W" -> "w" [] c = "X" -> "x"
      [] c = "Y" -> "y" [] c = "Z" -> "z" [] OTHER -> c

Lower(s) == [i \in 1..Len(s) |-> LowerChar(s[i])]

\* A plausible slip: .str.lower() left out.
is_conversion_cased(resource) ==
    /\ IsStr(resource)
    /\ \E pat \in CONVERSION_PATTERNS : Contains(resource, pat)

\* .str.lower().str.contains(CONVERSION_PATTERNS, regex=True, na=False)
is_conversion(resource) ==
    /\ IsStr(resource)
    /\ \E pat \in CONVERSION_PATTERNS : Contains(Lower(resource), pat)

NaT == [valid |-> FALSE, hour |-> 0, minute |-> 0, second |-> 0]

TwoDigits(s, i) == 10 * DigitVal(s[i]) + DigitVal(s[i + 1])

\* A plausible slip: the ranges of hour, minute and second not checked.
to_datetime_unchecked(time) ==
    IF /\ IsStr(time)
       /\ Len(time) = 8
       /\ time[3] = ":" /\ time[6] = ":"
       /\ \A i \in {1, 2, 4, 5, 7, 8} : time[i] \in DigitChars
    THEN [valid |-> TRUE, hour |-> TwoDigits(time, 1),
          minute |-> TwoDigits(time, 4), second |-> TwoDigits(time, 7)]
    ELSE NaT

\* pd.to_datetime('1970-01-01 ' + time, errors='coerce') on one cell.  The
\* cells of the model are HH:MM:SS tokens, strings holding no time, or NaN;
\* whatever does not parse is coerced to NaT.
to_datetime(time) ==
    IF /\ IsStr(time)
       /\ Len(time) = 8
       /\ time[3] = ":" /\ time[6] = ":"
       /\ \A i \in {1, 2, 4, 5, 7, 8} : time[i] \in DigitChars
       /\ TwoDigits(time, 1) < 24
       /\ TwoDigits(time, 4) < 60
       /\ TwoDigits(time, 7) < 60
    THEN [valid |-> TRUE, hour |-> TwoDigits(time, 1),
          minute |-> TwoDigits(time, 4), second |-> TwoDigits(time, 7)]
    ELSE NaT

\* dt.day_name(): the date is always 1970-01-01.
day_name(datetime) == "Thursday"

\* A DataFrame: the column labels and the rows, cell by position.
EmptyFrame == [columns |-> <<>>, rows |-> <<>>]

\* _standardize_columns: rename(columns=dict(zip(df.columns[:5], REQUIRED_COLS)))
standardize_columns(df) ==
    [df EXCEPT !.columns =
        [i \in 1..Len(df.columns) |->
            IF i <= Len(REQUIRED_COLS) THEN REQUIRED_COLS[i] ELSE df.columns[i]]]

\* df[name] of one row.
Cell(df, row, name) ==
    row[CHOOSE i \in 1..Len(df.columns) : df.columns[i] = name]

DerivedCols == {"datetime", "hour", "day_of_week", "is_conversion", "country"}

\* One row of df_clean after lines 56-67, before the country is resolved.
EnrichRow(df, row) ==
    LET datetime == to_datetime(Cell(df, row, "time"))
    IN  [c \in Range(df.columns) \cup (DerivedCols \ {"country"}) |->
            CASE c = "datetime" -> datetime
              [] c = "hour" -> datetime.hour
              [] c = "day_of_week" -> day_name(datetime)
              [] c = "is_conversion" -> is_conversion(Cell(df, row, "resource"))
              [] OTHER -> Cell(df, row, c)]

RECURSIVE ApplyResolve(_, _, _, _)
\* The apply after the resolver returned res for the first of rows.
ApplyNext(rows, env, acc, res) ==
    ApplyResolve(Tail(rows), res.reader, env,
        [df |-> IF res.country = Propagates THEN acc.df
                ELSE Append(acc.df, Head(rows) @@ ("country" :> res.country)),
         reader |-> res.reader,
         inits |-> acc.inits + res.inits,
         calls |-> Append(acc.calls, Head(rows)["ip"]),
         raised |-> IF res.country = Propagates THEN "TypeError" ELSE "no"])

\* df_clean['ip'].apply(self._resolve_country): row by row, in order, each
\* call seeing the reader the calls before it left.  calls: the arguments
\* the resolver was called with.  An exception leaving the resolver ends the
\* apply.
ApplyResolve(rows, reader, env, acc) ==
    IF rows = <<>> \/ acc.raised # "no" THEN acc
    ELSE ApplyNext(rows, env, acc, resolve_country(reader, env, Head(rows)["ip"]))

\* A plausible slip: line 60 left out, no row is dropped.
without_dropna(df) == df.rows

\* Line 60, dropna(subset=['datetime']): the rows whose datetime is not NaT.
dropna_datetime(df) ==
    SelectSeq(df.rows, LAMBDA row : to_datetime(Cell(df, row, "time")).valid)

\* What _validate_and_process returns or raises once the apply of line 71
\* has ended as res.
processed(res, derived, columns) ==
    [raised |-> res.raised,
     df |-> IF res.raised = "no" THEN res.df ELSE <<>>,
     reader |-> res.reader, inits |-> res.inits,
     calls |-> res.calls, derived |-> derived, columns |-> columns]

\* _validate_and_process: the enriched frame, or the KeyError raised by the
\* first column it indexes and does not find, or the exception that left
\* the resolver.  derived: the number of rows lines 61-67 computed hour,
\* day_of_week and is_conversion for; calls: the arguments of the resolver.
validate_and_process(df0, reader, env) ==
    LET df == IF Range(REQUIRED_COLS) \subseteq Range(df0.columns)
              THEN df0 ELSE standardize_columns(df0)
        failed == [raised |-> "KeyError", df |-> <<>>, reader |-> reader,
                   inits |-> 0, calls |-> <<>>, derived |-> 0,
                   columns |-> df.columns]
    IN  IF "time" \notin Range(df.columns) THEN failed
        ELSE LET kept == dropna_datetime(df)
             IN  IF "resource" \notin Range(df.columns) THEN failed
                 ELSE IF "ip" \notin Range(df.columns)
                 THEN [failed EXCEPT !.derived = Len(kept)]
                 ELSE processed(
                          ApplyResolve([i \in 1..Len(kept) |-> EnrichRow(df, kept[i])],
                                       reader, env,
                                       [df |-> <<>>, reader |-> reader, inits |-> 0,
                                        calls |-> <<>>, raised |-> "no"]),
                          Len(kept), df.columns)


\* --------------------------------------------------------- files and lines

DotLog == <<".", "l", "o", "g">>
Slash == <<"/">>

\* The watched directory, the log file in it, a second log file and a file
\* that is no log.
LogDir == <<"l", "o", "g", "s", "/">>
LogFile == <<"l", "o", "g", "s", "/", "a", ".", "l", "o", "g">>
OtherLog == <<"l", "o", "g", "s", "/", "b", ".", "l", "o", "g">>
TxtFile == <<"l", "o", "g", "s", "/", "n", ".", "t", "x", "t">>

T1015 == <<"1", "0", ":", "1", "5", ":", "0", "0">>
T2359 == <<"2", "3", ":", "5", "9", ":", "5", "9">>
T2500 == <<"2", "5", ":", "0", "0", ":", "0", "0">>
GET == <<"G", "E", "T">>
POST == <<"P", "O", "S", "T">>
Index == <<"/", "i", "n", "d", "e", "x", ".", "h", "t", "m", "l">>
Promo == <<"/", "P", "R", "O", "M", "O", "/", "x">>
S200 == <<"2", "0", "0">>

RECURSIVE Join(_)
\* The fields of a log line, blank-separated.
Join(fields) ==
    IF Len(fields) = 1 THEN fields[1]
    ELSE fields[1] \o <<SP>> \o Join(Tail(fields))

Line(fields) == Join(fields) \o <<NL>>

GoodLine == Line(<<T1015, IP_10, GET, Index, S200>>)
PromoLine == Line(<<T2359, IP_75, POST, Promo, S200>>)
BadTimeLine == Line(<<T2500, IP_10, GET, Index, S200>>)
ShortLine == Line(<<T1015, IP_10, GET>>)
LongLine == Line(<<T1015, IP_10, GET, Index, S200, GET>>)
\* PromoLine written in two writes, cut inside the address.
FirstHalf == SubSeq(PromoLine, 1, 12)
SecondHalf == SubSeq(PromoLine, 13, Len(PromoLine))

\* What one write appends to the log file / to the second log file.
Chunks == {PromoLine, BadTimeLine, ShortLine, LongLine, FirstHalf, SecondHalf}
OtherChunks == {GoodLine}

\* A path with no file behind it (open() raises FileNotFoundError).
Missing == <<"ENOENT">>

\* The lines of s, each with its terminator; a last line without one is kept.
SplitLines(s) ==
    LET ends == {i \in 1..Len(s) : s[i] = NL \/ i = Len(s)}
        starts == {i \in 1..Len(s) : i = 1 \/ s[i - 1] = NL}
    IN  [k \in 1..Cardinality(starts) |-> SubSeq(s, Nth(starts, k), Nth(ends, k))]

\* f.seek(pos); f.readlines(): everything from pos to the end of the file,
\* the unterminated tail included; nothing when pos is at or past the end.
readlines(content, pos) ==
    IF pos >= Len(content) THEN <<>>
    ELSE SplitLines(SubSeq(content, pos + 1, Len(content)))

\* A plausible slip: self.current_size += f.tell().
tell_accumulated(content, pos) ==
    pos + (IF pos >= Len(content) THEN pos ELSE Len(content))

\* f.tell() after f.seek(pos); f.readlines(): the end of the file, or pos
\* when pos lies past it.
tell_after_readlines(content, pos) ==
    IF pos >= Len(content) THEN pos ELSE Len(content)

\* f.tell() right after open(path, 'r'): the start of the file.
tell_after_open(content) == 0


\* ------------------------------------------------------------- LogHandler

\* What pd.DataFrame(rows, columns=<5 labels>) does with a list of lists:
\* the width of the data is that of its longest row, shorter rows are padded
\* with None, and a width other than the number of labels is a ValueError.
Widest(rows) ==
    IF rows = <<>> THEN 0
    ELSE CHOOSE n \in {Len(rows[i]) : i \in 1..Len(rows)} :
             \A i \in 1..Len(rows) : Len(rows[i]) <= n

Pad(row, n) == [i \in 1..n |-> IF i <= Len(row) THEN row[i] ELSE None]

DataFrame(rows, columns) ==
    IF Widest(rows) # Len(columns)
    THEN [raised |-> "ValueError", frame |-> EmptyFrame]
    ELSE [raised |-> "no",
          frame |-> [columns |-> columns,
                     rows |-> [i \in 1..Len(rows) |-> Pad(rows[i], Len(columns))]]]

\* The attributes class LogAnalyzer and its instances define.
LogAnalyzerAttrs ==
    {"REQUIRED_COLS", "CONVERSION_PATTERNS", "COUNTRY_MAP", "_geoip_reader", "df",
     "geoip_reader", "_init_geoip", "_validate_and_process", "_standardize_columns",
     "_resolve_country", "_map_ip_to_country", "_convert_to_alpha3",
     "get_conversion_metrics", "generate_geo_plot"}

\* self.analyzer.process_new_entries(new_data): the attribute lookup on
\* the analyzer raises AttributeError when the class defines no such method.
process_new_entries(new_data) ==
    IF "process_new_entries" \in LogAnalyzerAttrs
    THEN [raised |-> "no"]
    ELSE [raised |-> "AttributeError"]

\* The body of on_modified for one event: the offset it leaves and the
\* exception its except clause caught ("no": none; "skip": the path is no
\* .log path and the body did not run).  fault: the OSError, if any, that
\* open() or readlines() raises for a reason other than a missing file.
on_modified(src_path, content, size, fault) ==
    IF ~EndsWith(src_path, DotLog)
    THEN [current_size |-> size, caught |-> "skip", new_lines |-> <<>>]
    ELSE IF content = Missing \/ fault
    THEN [current_size |-> size, caught |-> "OSError", new_lines |-> <<>>]
    ELSE LET new_lines == readlines(content, size)
             after == tell_after_readlines(content, size)
             new_data == DataFrame([i \in 1..Len(new_lines) |->
                                       Split(Strip(new_lines[i]))],
                                   REQUIRED_COLS)
         IN  IF new_lines = <<>>
             THEN [current_size |-> after, caught |-> "no", new_lines |-> new_lines]
             ELSE IF new_data.raised # "no"
             THEN [current_size |-> after, caught |-> new_data.raised,
                   new_lines |-> new_lines]
             ELSE [current_size |-> after,
                   caught |-> process_new_entries(new_data.frame).raised,
                   new_lines |-> new_lines]

\* ------------------------------------------------------------------ state

VARIABLES
    pc,            \* start_monitoring: "init", "loop", "finally", "done", "raised"
                   \* ("finally": in observer.join(); "raised": left by an exception)
    log_path,      \* start_monitoring's argument (None before the call)
    observer,      \* the Observer thread: "new", "running", "stopped"
    watch,         \* the path handed to observer.schedule (None: no path)
    current_size,  \* LogHandler.current_size
    df,            \* LogAnalyzer.df, the Dataset
    reader,        \* LogAnalyzer._geoip_reader
    geo_env,       \* the GeoLite2 resource as _init_geoip would find it now
    files,         \* content of the files of the watched directory
    nwrites,       \* writes, deletions and creations made so far
    last,          \* history: the latest on_modified call since the last write
    synced,        \* history: length of the log file at the latest call that
                   \* read it (-1: no such call yet)
    df0,           \* history: the Dataset as the constructor left it
    size0,         \* history: length of the log file when start_monitoring ran
    rotated,       \* history: the log file was deleted after the start
    ncalls,        \* _resolve_country calls made so far (SpecGeo)
    ninits,        \* _init_geoip calls made so far (SpecGeo)
    first_init,    \* outcome of the first _init_geoip call (SpecGeo)
    result,        \* what the last _resolve_country call returned (SpecGeo)
    call,          \* history: the last _resolve_country call (SpecGeo)
    load,          \* history: the last LogAnalyzer(df) construction (SpecLoad)
    metrics        \* what the last get_conversion_metrics returned (SpecLoad)

vars == <<pc, log_path, observer, watch, current_size, df, reader, geo_env,
          files, nwrites, last, synced, df0, size0, rotated,
          ncalls, ninits, first_init, result, call, load, metrics>>

\* The variables of the analyzer specifications (SpecGeo, SpecLoad).
geoVars == <<ncalls, ninits, first_init, result, call, load, metrics>>

\* A float: a fraction num/den, or NaN.
Float(n, d) == [nan |-> FALSE, num |-> n, den |-> d]
FloatNaN == [nan |-> TRUE, num |-> 0, den |-> 1]

\* load: the table the latest LogAnalyzer(df) was given and what
\* _validate_and_process did with it (made = FALSE: none yet).
NoLoad == [made |-> FALSE, table |-> [columns |-> <<>>, rows |-> <<>>],
           raised |-> "no", columns |-> <<>>, calls |-> <<>>, derived |-> 0]

\* metrics: no call of get_conversion_metrics yet.
NoMetrics == [made |-> FALSE, overall |-> FloatNaN, by_type |-> {}]

\* call: the argument of the latest _resolve_country call, the reader
\* attribute before it, what the call did (made = FALSE: no call yet).
NoCall == [made |-> FALSE, ip |-> None, env |-> "absent",
           reader_before |-> NoReader, reader_after |-> NoReader,
           inits |-> 0, lookups |-> 0, fallback |-> FALSE]

\* last: the event of the latest on_modified call since the last write
\* (src_path = None: no call since), the exception it caught, the offset
\* before and after it, the number of records of the Dataset before it, the
\* value of synced before it, and what the call before it was.
NoEvent == [src_path |-> None, caught |-> "none", before |-> 0, after |-> 0,
            nrec_before |-> 0, prev_synced |-> -1, prev_kind |-> "none"]

\* What a call was: a read of the log file, a failed read of it, or a call
\* for another path.
KindOf(l) ==
    IF l.src_path = None THEN "none"
    ELSE IF l.src_path # LogFile THEN "other"
    ELSE IF l.caught = "OSError" THEN "fault"
    ELSE "read"

\* Tables start_monitoring is given as initial_data.
CanonicalData ==
    [columns |-> REQUIRED_COLS,
     rows |-> << <<T1015, IP_10, GET, Index, S200>>,
                 <<T2500, IP_75, GET, Index, S200>>,
                 <<T2359, IP_75, POST, Promo, S200>> >>]
\* initial_data: a frame, or nothing (is_none: the default argument None).
InitialData ==
    {[is_none |-> TRUE, frame |-> EmptyFrame]} \cup
    {[is_none |-> FALSE, frame |-> f] : f \in {CanonicalData}}

Init ==
    /\ pc = "init"
    /\ log_path = None
    /\ observer = "new"
    /\ watch = None
    /\ current_size = 0
    /\ df = <<>>
    /\ reader = NoReader
    /\ geo_env \in {"ok", "absent"}
    /\ \E content \in {<<>>, GoodLine, Missing} :
           files = [p \in {LogFile, OtherLog} |->
                       IF p = LogFile THEN content ELSE <<>>]
    /\ nwrites = 0
    /\ last = NoEvent
    /\ synced = -1
    /\ df0 = <<>>
    /\ size0 = 0
    /\ rotated = FALSE
    /\ ncalls = 0
    /\ ninits = 0
    /\ first_init = "none"
    /\ result = None
    /\ call = NoCall
    /\ load = NoLoad
    /\ metrics = NoMetrics


\* ------------------------------------------------------- start_monitoring

\* Lines 49-53: the offset recorded before the observer starts.  open() of a
\* directory or of a missing file raises and the bare except stores 0.
initial_size(path, fs) ==
    IF path \in DOMAIN fs /\ fs[path] # Missing
    THEN tell_after_open(fs[path])
    ELSE 0

\* Line 46: the path the handler is scheduled on.
scheduled_path(path) == IF EndsWith(path, Slash) THEN path ELSE None

\* start_monitoring up to the monitoring loop (lines 41-56).  LogAnalyzer's
\* constructor raises on a frame without the columns; observer.start() on a
\* watch without a path either raises or leaves an observer watching nothing
\* (start_fails picks which).
StartMonitoring(path, initial_data, start_fails) ==
    /\ pc = "init"
    /\ \E analyzer \in {validate_and_process(
                              IF initial_data.is_none THEN EmptyFrame
                              ELSE initial_data.frame,
                              NoReader, geo_env)} :
           /\ log_path' = path
           /\ size0' = IF files[LogFile] = Missing THEN 0 ELSE Len(files[LogFile])
           /\ IF analyzer.raised # "no"
              THEN /\ pc' = "raised"
                   /\ UNCHANGED <<observer, watch, current_size, df, df0, reader>>
              ELSE /\ df' = analyzer.df
                   /\ df0' = analyzer.df
                   /\ reader' = analyzer.reader
                   /\ watch' = scheduled_path(path)
                   /\ current_size' = initial_size(path, files)
                   /\ IF scheduled_path(path) = None /\ start_fails
                      THEN pc' = "raised" /\ observer' = "new"
                      ELSE pc' = "loop" /\ observer' = "running"
    /\ UNCHANGED <<geo_env, files, nwrites, last, synced, rotated, geoVars>>

\* A plausible slip: events still dispatched after observer.stop().
DispatchingAfterStop == watch # None /\ observer # "new"

\* The observer thread dispatches events from observer.start() (line 55) to
\* observer.stop() (line 62), for the path it was scheduled on.
Dispatching == watch # None /\ observer = "running"

\* The observer thread calls on_modified for a change under the watched
\* path; the handler runs to its end.  No statement of the handler that
\* runs assigns the analyzer's df.
OnModified(src_path, fault) ==
    /\ Dispatching
    /\ Len(src_path) > Len(watch) /\ SubSeq(src_path, 1, Len(watch)) = watch
    /\ LET content == IF src_path \in DOMAIN files THEN files[src_path] ELSE <<>>
       IN  \E r \in {on_modified(src_path, content, current_size, fault)} :
           /\ current_size' = r.current_size
           /\ last' = [src_path |-> src_path, caught |-> r.caught,
                       before |-> current_size, after |-> r.current_size,
                       nrec_before |-> Len(df), prev_synced |-> synced,
                       prev_kind |-> KindOf(last)]
           /\ synced' = IF src_path = LogFile /\ r.caught # "OSError"
                        THEN Len(content) ELSE synced
    /\ UNCHANGED <<pc, log_path, observer, watch, df, df0, reader, geo_env, files,
                   nwrites, size0, rotated, geoVars>>

\* Ctrl-C in the loop (lines 61-62): observer.stop().
KeyboardInterrupt ==
    /\ pc = "loop"
    /\ pc' = "finally"
    /\ observer' = "stopped"
    /\ UNCHANGED <<log_path, watch, current_size, df, df0, reader, geo_env, files,
                   nwrites, last, synced, size0, rotated, geoVars>>

\* Any other exception raised in the loop: only the finally clause runs.
OtherException ==
    /\ pc = "loop"
    /\ pc' = "finally"
    /\ UNCHANGED <<log_path, observer, watch, current_size, df, df0, reader,
                   geo_env, files, nwrites, last, synced, size0, rotated, geoVars>>

\* Line 64: observer.join() returns once the observer thread has ended.
JoinReturns ==
    /\ pc = "finally"
    /\ observer = "stopped"
    /\ pc' = "done"
    /\ UNCHANGED <<log_path, observer, watch, current_size, df, df0, reader,
                   geo_env, files, nwrites, last, synced, size0, rotated, geoVars>>

\* ------------------------------------------------------------ environment

\* Another process appends to a file of the directory.
Write(path, chunk) ==
    /\ pc \in {"loop", "finally"}
    /\ nwrites < MaxWrites
    /\ files[path] # Missing
    /\ files' = [files EXCEPT ![path] = @ \o chunk]
    /\ nwrites' = nwrites + 1
    /\ last' = NoEvent
    /\ UNCHANGED <<pc, log_path, observer, watch, current_size, df, df0, reader,
                   geo_env, synced, size0, rotated, geoVars>>

\* The log file is deleted.
Delete ==
    /\ pc \in {"loop", "finally"}
    /\ nwrites < MaxWrites
    /\ files[LogFile] # Missing
    /\ files' = [files EXCEPT ![LogFile] = Missing]
    /\ nwrites' = nwrites + 1
    /\ last' = NoEvent
    /\ rotated' = TRUE
    /\ UNCHANGED <<pc, log_path, observer, watch, current_size, df, df0, reader,
                   geo_env, synced, size0, geoVars>>

\* The log file is created again, empty.
Create ==
    /\ pc \in {"loop", "finally"}
    /\ nwrites < MaxWrites
    /\ files[LogFile] = Missing
    /\ files' = [files EXCEPT ![LogFile] = <<>>]
    /\ nwrites' = nwrites + 1
    /\ last' = NoEvent
    /\ UNCHANGED <<pc, log_path, observer, watch, current_size, df, df0, reader,
                   geo_env, synced, size0, rotated, geoVars>>

Next ==
    \/ \E path \in {LogFile, LogDir}, initial_data \in InitialData,
          start_fails \in BOOLEAN :
           StartMonitoring(path, initial_data, start_fails)
    \/ \E src_path \in {LogFile, OtherLog, TxtFile}, fault \in BOOLEAN :
           OnModified(src_path, fault)
    \/ KeyboardInterrupt
    \/ OtherException
    \/ JoinReturns
    \/ \E chunk \in Chunks : Write(LogFile, chunk)
    \/ \E chunk \in OtherChunks : Write(OtherLog, chunk)
    \/ Delete
    \/ Create

Spec == Init /\ [][Next]_vars


\* --------------------------------------------- calls on one LogAnalyzer

\* Addresses _resolve_country is called with.
OddOctet == <<" ", "+", "1", "_", "0", ".", "x">>
Addresses == {<<>>, None, NaN, IntFive, NA, IP_10, IP_75, IP_150, IP_200,
              IP_abc, IP_10x, OddOctet}

\* A LogAnalyzer just built on a frame without rows: no address resolved
\* yet, _geoip_reader None.
InitGeo ==
    /\ pc = "init"
    /\ log_path = None
    /\ observer = "new"
    /\ watch = None
    /\ current_size = 0
    /\ df = <<>>
    /\ reader = NoReader
    /\ geo_env \in GeoEnvs
    /\ files = [p \in {LogFile, OtherLog} |-> <<>>]
    /\ nwrites = 0
    /\ last = NoEvent
    /\ synced = -1
    /\ df0 = <<>>
    /\ size0 = 0
    /\ rotated = FALSE
    /\ ncalls = 0
    /\ ninits = 0
    /\ first_init = "none"
    /\ result = None
    /\ call = NoCall
    /\ load = NoLoad
    /\ metrics = NoMetrics

watchVars == <<pc, log_path, observer, watch, current_size, df, files, nwrites,
               last, synced, df0, size0, rotated>>

\* Outcome of the first _init_geoip call, once there was one.
FirstInit(inits, after) ==
    IF first_init # "none" \/ inits = 0 THEN first_init
    ELSE IF after = NoReader THEN "failed" ELSE "opened"

\* One call of _resolve_country.
Resolve(ip) ==
    /\ ncalls < MaxCalls
    /\ LET r == resolve_country(reader, geo_env, ip)
       IN  /\ reader' = r.reader
           /\ result' = r.country
           /\ ninits' = ninits + r.inits
           /\ first_init' = FirstInit(r.inits, r.reader)
           /\ call' = [made |-> TRUE, ip |-> ip, env |-> geo_env,
                       reader_before |-> reader,
                       reader_after |-> r.reader, inits |-> r.inits,
                       lookups |-> r.lookups, fallback |-> r.fallback]
    /\ ncalls' = ncalls + 1
    /\ UNCHANGED <<watchVars, geo_env, load, metrics>>

\* main.py line 137, hasattr(analyzer, 'geoip_reader'): a read of the
\* property.
HasAttrCheck ==
    /\ ncalls < MaxCalls
    /\ reader' = geoip_reader(reader, geo_env)
    /\ ninits' = ninits + InitCalls(reader)
    /\ first_init' = FirstInit(InitCalls(reader), geoip_reader(reader, geo_env))
    /\ ncalls' = ncalls + 1
    /\ UNCHANGED <<watchVars, geo_env, result, call, load, metrics>>

\* The GeoLite2 file appears, disappears or is replaced between two calls.
GeoEnvChange(env) ==
    /\ env # geo_env
    /\ geo_env' = env
    /\ UNCHANGED <<watchVars, reader, geoVars>>

NextGeo ==
    \/ \E ip \in Addresses : Resolve(ip)
    \/ HasAttrCheck
    \/ \E env \in GeoEnvs : GeoEnvChange(env)

SpecGeo == InitGeo /\ [][NextGeo]_vars

\* ------------------------------------------------- vocabulary of the claims

LogContent == files[LogFile]
Exists == LogContent # Missing

\* What was appended to the log file since start_monitoring ran.
Appended == SubSeq(LogContent, size0 + 1, Len(LogContent))

Complete(line) == line # <<>> /\ line[Len(line)] = NL
Fields(line) == Split(Strip(line))
WellFormed(line) == Complete(line) /\ Len(Fields(line)) = Len(REQUIRED_COLS)
Parsable(line) == WellFormed(line) /\ to_datetime(Fields(line)[1]).valid

\* What the latest call found unread: the file from the offset it started at.
Unread ==
    IF last.before >= Len(LogContent) THEN <<>>
    ELSE SplitLines(SubSeq(LogContent, last.before + 1, Len(LogContent)))

\* End of the last terminated line of content at or after offset from.
LastCompleteEnd(content, from) ==
    LET ends == {i \in (from + 1)..Len(content) : content[i] = NL}
    IN  IF ends = {} THEN from ELSE Nth(ends, Cardinality(ends))

\* The Dataset is rows followed by one record per line of lines, in order.
Ingested(rows, lines) ==
    /\ Len(df) = Len(rows) + Len(lines)
    /\ SubSeq(df, 1, Len(rows)) = rows
    /\ \A k \in 1..Len(lines) :
           /\ df[Len(rows) + k]["time"] = Fields(lines[k])[1]
           /\ df[Len(rows) + k]["ip"] = Fields(lines[k])[2]

\* ------------------------------------------------------------------ claims

\* C1: after well-formed complete lines were appended to the watched file
\* and a notification for it was handled after the last append, the Dataset
\* holds, after the records it started with, exactly one record per appended
\* line with a parsable time, in file order.
C1_OneRecordPerAppendedLine ==
    ( /\ observer = "running" /\ ~rotated /\ Exists
      /\ KindOf(last) = "read"
      /\ \A i \in DOMAIN SplitLines(Appended) : WellFormed(SplitLines(Appended)[i]) )
    => Ingested(df0, SelectSeq(SplitLines(Appended), Parsable))

\* C2: after a call of the handler that read the watched file, byte_offset
\* is the end of the last terminated line read so far; an unterminated tail
\* is not consumed.
C2_OffsetAtLastCompleteLine ==
    (KindOf(last) = "read" /\ Exists)
    => current_size = LastCompleteEnd(LogContent, last.before)

\* C3: a line written in two writes, the first without terminator, with a
\* notification handled after each write, adds exactly one record.
C3_SplitLineOneRecord ==
    ( /\ observer = "running" /\ ~rotated /\ Exists
      /\ Appended = FirstHalf \o SecondHalf
      /\ last.prev_synced = size0 + Len(FirstHalf)
      /\ KindOf(last) = "read" )
    => Len(df) = Len(df0) + 1


\* A step in which on_modified ran for the log file.
HandledLogFile == last' # last /\ last'.src_path = LogFile

\* C4, as stated: a call of the handler for the watched file with no bytes
\* written since the previous call leaves byte_offset and the Dataset as
\* they were.
C4_NoOpSincePreviousCall ==
    [][(last.src_path = LogFile /\ current_size >= size0 /\ HandledLogFile)
         => (current_size' = current_size /\ df' = df)]_vars

\* C4, amended: a call of the handler for the watched file with no bytes
\* written since the previous call, when that call read the file without an
\* error, leaves byte_offset and the Dataset as they were.
C4_NoOpSincePreviousRead ==
    [][(KindOf(last) = "read" /\ HandledLogFile)
         => (current_size' = current_size /\ df' = df)]_vars

\* C4 witness: the handler ran again on a log file with content it had read
\* to the end, nothing written in between.
C4_Witness ==
    /\ KindOf(last) = "read" /\ last.prev_kind = "read"
    /\ Exists /\ Len(LogContent) > 0
    /\ last.before = Len(LogContent)
    /\ current_size = last.before

\* C5: started on a file that has content, the watcher begins with
\* byte_offset at the end of that content.
C5_StartsAtEndOfContent ==
    (observer = "running" /\ nwrites = 0 /\ last = NoEvent)
    => current_size = size0

\* C6: when the complete lines one notification reads hold a malformed line
\* beside well-formed ones, every well-formed line with a parsable time is
\* appended to the Dataset and only the malformed ones are left out.
C6_MalformedLineSkippedAlone ==
    ( /\ KindOf(last) = "read" /\ Exists /\ ~rotated /\ last.before >= size0
      /\ \A i \in DOMAIN Unread : Complete(Unread[i])
      /\ \E i \in DOMAIN Unread : ~WellFormed(Unread[i])
      /\ \E i \in DOMAIN Unread : Parsable(Unread[i]) )
    => Len(df) = last.nrec_before + Len(SelectSeq(Unread, Parsable))

\* C7: an I/O error while reading the watched file leaves the watcher
\* watching and byte_offset and the Dataset unchanged, and the call after it
\* reads and ingests what was left unread.
C7_FaultThenRetry ==
    /\ KindOf(last) = "fault"
       => /\ current_size = last.before
          /\ Len(df) = last.nrec_before
          /\ (pc = "loop" => observer = "running")
    /\ ( /\ KindOf(last) = "read" /\ last.prev_kind = "fault" /\ Exists
         /\ ~rotated /\ last.before >= size0
         /\ \A i \in DOMAIN Unread : WellFormed(Unread[i]) )
       => /\ current_size >= Len(LogContent)
          /\ Len(df) = last.nrec_before + Len(SelectSeq(Unread, Parsable))

C9_ObserverStoppedAfterLoop ==
    pc \in {"finally", "done"} => observer = "stopped"


\* C10: when the first attempt to open the geo-database failed, no later
\* call on the instance attempts to open it again.
C10_NoRetryAfterFailedOpen ==
    first_init = "failed" => ninits = 1


\* ------------------------------------------------ LogAnalyzer on a table

Jobs == <<"/", "J", "o", "b", "s">>
ProMo == <<"/", "p", "r", "o", "-", "m", "o">>

\* The rows a table is made of: time, ip, method, resource, status.
Rows ==
    { <<T1015, IP_10, GET, Index, S200>>,
      <<T2359, IP_75, POST, Promo, S200>>,
      <<T2500, NA, GET, Jobs, S200>>,
      <<T1015, IP_200, POST, ProMo, S200>>,
      <<T1015, NA, GET, Jobs, S200>> }

RECURSIVE RowSeqs(_)
\* The sequences of at most n rows.
RowSeqs(n) ==
    IF n = 0 THEN {<<>>}
    ELSE RowSeqs(n - 1) \cup
         {Append(rs, r) : rs \in {x \in RowSeqs(n - 1) : Len(x) = n - 1}, r \in Rows}

\* Column labels a table comes with: the canonical ones, other names in
\* the canonical order, fewer than five columns, more than five, none.
Layouts ==
    { REQUIRED_COLS,
      <<"c1", "c2", "c3", "c4", "c5">>,
      <<"c1", "c2", "c3", "c4">>,
      <<"c1", "c2", "c3">>,
      <<"c1", "c2", "c3", "c4", "c5", "c6">>,
      <<>> }

\* The table with these labels and the leading cells of these rows (a
\* sixth cell repeats the status).
Table(columns, rows) ==
    [columns |-> columns,
     rows |-> IF columns = <<>> THEN <<>>
              ELSE [i \in 1..Len(rows) |->
                       [k \in 1..Len(columns) |->
                           IF k <= 5 THEN rows[i][k] ELSE rows[i][5]]]]

Tables == {Table(c, rs) : c \in Layouts, rs \in RowSeqs(MaxRows)}

\* Series.mean() of a boolean column: NaN when the column is empty.
mean(bools) ==
    IF bools = <<>> THEN FloatNaN
    ELSE Float(Cardinality({i \in 1..Len(bools) : bools[i]}), Len(bools))

\* groupby('method')['is_conversion'].mean() for one value of method.
group_mean(d, m) ==
    LET g == SelectSeq(d, LAMBDA rec : rec["method"] = m)
    IN  mean([i \in 1..Len(g) |-> g[i]["is_conversion"]])

\* get_conversion_metrics: the mean of is_conversion, overall and for each
\* value of method.
get_conversion_metrics(d) ==
    [overall |-> mean([i \in 1..Len(d) |-> d[i]["is_conversion"]]),
     by_type |-> {<<m, group_mean(d, m)>> :
                     m \in {d[i]["method"] : i \in 1..Len(d)}}]

InitLoad ==
    /\ pc = "init"
    /\ log_path = None
    /\ observer = "new"
    /\ watch = None
    /\ current_size = 0
    /\ df = <<>>
    /\ reader = NoReader
    /\ geo_env \in {"ok", "absent"}
    /\ files = [p \in {LogFile, OtherLog} |-> <<>>]
    /\ nwrites = 0
    /\ last = NoEvent
    /\ synced = -1
    /\ df0 = <<>>
    /\ size0 = 0
    /\ rotated = FALSE
    /\ ncalls = 0
    /\ ninits = 0
    /\ first_init = "none"
    /\ result = None
    /\ call = NoCall
    /\ load = NoLoad
    /\ metrics = NoMetrics

\* LogAnalyzer(table): __init__ runs _validate_and_process; when it raises
\* there is no analyzer.
Load(table) ==
    /\ ~load.made
    /\ \E r \in {validate_and_process(table, NoReader, geo_env)} :
           /\ load' = [made |-> TRUE, table |-> table, raised |-> r.raised,
                       columns |-> r.columns, calls |-> r.calls,
                       derived |-> r.derived]
           /\ df' = r.df
           /\ reader' = r.reader
    /\ UNCHANGED <<pc, log_path, observer, watch, current_size, geo_env, files,
                   nwrites, last, synced, df0, size0, rotated,
                   ncalls, ninits, first_init, result, call, metrics>>

\* get_conversion_metrics() on the analyzer built.
Metrics ==
    /\ load.made /\ load.raised = "no"
    /\ ~metrics.made
    /\ \E m \in {get_conversion_metrics(df)} :
           metrics' = [made |-> TRUE, overall |-> m.overall, by_type |-> m.by_type]
    /\ UNCHANGED <<watchVars, reader, geo_env, ncalls, ninits, first_init,
                   result, call, load>>

NextLoad ==
    \/ \E table \in Tables : Load(table)
    \/ Metrics

SpecLoad == InitLoad /\ [][NextLoad]_vars

\* -------------------------------------------------- claims on the resolver

\* A dotted quad: four fields of one to three digits, each at most 255.
IsOctet(f) ==
    /\ Len(f) \in 1..3
    /\ \A i \in 1..Len(f) : f[i] \in DigitChars
    /\ DecimalValue(f, 0) <= 255

IsAddress(s) ==
    /\ IsStr(s)
    /\ LET fields == SplitOn(s, ".", <<>>, <<>>)
       IN  Len(fields) = 4 /\ \A i \in 1..4 : IsOctet(fields[i])

LeadingOctet(s) == DecimalValue(SplitOn(s, ".", <<>>, <<>>)[1], 0)

\* C11: every call of resolve returns a country code or "Unknown" and
\* raises nothing, whatever the argument and the state of the database; for
\* an empty or non-string argument it returns "Unknown" and neither an open
\* of the database nor a lookup is attempted.
C11_ResolveTotal ==
    call.made =>
        /\ result # Propagates
        /\ result = Unknown \/ (IsStr(result) /\ Len(result) = 2)
        /\ (call.ip = <<>> \/ ~IsStr(call.ip))
               => (result = Unknown /\ call.inits = 0 /\ call.lookups = 0)

\* C12: the fallback maps the leading octet through [0,50)->US,
\* [50,100)->UK, [100,150)->IN, [150,200)->CA ("10.0.0.1" -> US, "75.1.1.1"
\* -> UK, "200.1.1.1" -> Unknown), and gives "Unknown" for every address
\* outside the ranges and for every string that is not an address.
C12_FallbackTable ==
    (call.made /\ call.fallback) =>
        /\ call.ip = IP_10 => result = US
        /\ call.ip = IP_75 => result = UK
        /\ call.ip = IP_200 => result = Unknown
        /\ IsAddress(call.ip) =>
               result = (CASE LeadingOctet(call.ip) < 50 -> US
                           [] LeadingOctet(call.ip) \in 50..99 -> UK
                           [] LeadingOctet(call.ip) \in 100..149 -> IN_
                           [] LeadingOctet(call.ip) \in 150..199 -> CA
                           [] OTHER -> Unknown)
        /\ ~IsAddress(call.ip) => result = Unknown


\* ------------------------------------------------- claims on the Dataset

\* A time-of-day token: HH:MM:SS on the 24-hour clock.
ValidTimeToken(time) ==
    /\ IsStr(time)
    /\ Len(time) = 8
    /\ <<time[3], time[6]>> = <<":", ":">>
    /\ \A k \in {0, 3, 6} :
           /\ time[k + 1] \in DigitChars /\ time[k + 2] \in DigitChars
           /\ DecimalValue(SubSeq(time, k + 1, k + 2), 0)
                  <= (IF k = 0 THEN 23 ELSE 59)

\* C13: in every reachable state of the watcher, from the Dataset the
\* constructor loaded to every state the change handler leaves, no record
\* of the Dataset has a null timestamp or a time field that is not a valid
\* time-of-day token.
C13_NoNullTimestamp ==
    \A i \in 1..Len(df) :
        ValidTimeToken(df[i]["time"]) /\ df[i]["datetime"].valid

\* C13 witness: the Dataset was loaded from a table holding a row with an
\* invalid time and the handler has read a five-field line with an invalid
\* time; the Dataset holds the two valid rows only.
C13_Witness ==
    /\ observer = "running"
    /\ Len(df) = 2 /\ Len(CanonicalData.rows) = 3
    /\ KindOf(last) = "read" /\ Exists
    /\ \E i \in DOMAIN Unread : WellFormed(Unread[i]) /\ ~Parsable(Unread[i])


\* C14: building the analyzer on a table with fewer than five columns that
\* does not carry all the canonical names fails with an error raised to the
\* caller; no Dataset is built on a partial renaming of its columns.
C14_FewColumnsRejected ==
    (/\ load.made
     /\ Len(load.table.columns) < Len(REQUIRED_COLS)
     /\ ~(Range(REQUIRED_COLS) \subseteq Range(load.table.columns)))
        => load.raised # "no"


\* C15: conversion_rate() is 0.0 on a Dataset without records, and on a
\* Dataset with records it is the number of records with is_conversion
\* true over the number of records.
C15_ConversionRate ==
    (metrics.made /\ Len(load.table.columns) >= Len(REQUIRED_COLS)) =>
        IF Len(df) = 0
        THEN ~metrics.overall.nan /\ metrics.overall.num = 0
        ELSE /\ ~metrics.overall.nan
             /\ metrics.overall.num * Len(df) = metrics.overall.den *
                    Cardinality({i \in 1..Len(df) : df[i]["is_conversion"]})


\* The marker substrings of the conversion classification.
Markers ==
    { <<"d", "e", "m", "o">>, <<"p", "r", "o", "m", "o">>, <<"j", "o", "b">>,
      <<"s", "c", "h", "e", "d", "u", "l", "e">> }

\* Some marker occurs in the text at some position, letter case ignored.
HasMarker(text) ==
    \E m \in Markers : \E at \in 0..(Len(text) - Len(m)) :
        \A k \in 1..Len(m) : LowerChar(text[at + k]) = m[k]

\* C16: for every record of the Dataset, is_conversion is true exactly when
\* the resource, lower-cased, contains one of demo, promo, job, schedule
\* somewhere in the path.
C16_ConversionClassification ==
    (load.made /\ load.raised = "no") =>
        \A i \in 1..Len(df) :
            df[i]["is_conversion"] = HasMarker(df[i]["resource"])

\* C16 witness: the Dataset holds "/PROMO/x" classified true and
\* "/index.html" classified false.
C16_Witness ==
    /\ load.made /\ load.raised = "no"
    /\ \E i \in 1..Len(df) : df[i]["resource"] = Promo /\ df[i]["is_conversion"]
    /\ \E i \in 1..Len(df) : df[i]["resource"] = Index /\ ~df[i]["is_conversion"]


\* ------------------------------------------- claims on the resolver, cont.

\* The database was available to the latest call: the reader was open
\* before it, or the open the call attempted found the resource in order.
Available == call.reader_before = Reader \/ call.env = "ok"

\* What the fallback table gives for the inputs: the country of the range
\* holding the integer before the first dot, "Unknown" without one.
FallbackOf(ip) ==
    CASE ip \in {IP_10, IP_10x, OddOctet} -> US
      [] ip = IP_75 -> UK
      [] ip = IP_150 -> CA
      [] OTHER -> Unknown

\* C17: for a non-empty string address, when the database is unavailable,
\* or the lookup raises or gives no country code, resolve returns what the
\* fallback gives for the address; when the lookup gives a code, resolve
\* returns that code and the fallback is not called.
C17_FallbackOnDegradation ==
    (call.made /\ IsStr(call.ip) /\ call.ip # <<>>) =>
        IF /\ Available
           /\ ~DbCountry(call.ip).raised
           /\ DbCountry(call.ip).iso_code # None
        THEN result = DbCountry(call.ip).iso_code /\ ~call.fallback
        ELSE result = FallbackOf(call.ip) /\ call.fallback

\* C17 witness: on an available database the lookup of "150.1.1.1" gave an
\* entry without a country code and resolve returned the fallback's "CA".
C17_Witness ==
    /\ call.made /\ call.ip = IP_150
    /\ Available /\ call.lookups = 1
    /\ call.fallback /\ result = CA


\* ------------------------------------------- claims on the Dataset, cont.

\* The rows of the table given to the constructor whose time is a valid
\* token: the rows that are not dropped.
ValidRows == SelectSeq(load.table.rows, LAMBDA row : ValidTimeToken(row[1]))

\* C18: the rows whose timestamp failed to parse are dropped before any
\* other derivation: the resolver is called only with the addresses of the
\* rows that are kept, in their order, and hour, weekday and is_conversion
\* are computed for the kept rows only.
C18_DroppedBeforeDerivation ==
    load.made =>
        /\ Len(load.calls) <= Len(ValidRows)
        /\ \A k \in 1..Len(load.calls) : load.calls[k] = ValidRows[k][2]
        /\ load.derived \in {0, Len(ValidRows)}

\* C18 witness: a table with a row that parses and a row that does not was
\* loaded, and the resolver was called once.
C18_Witness ==
    /\ load.made /\ load.raised = "no"
    /\ Len(load.table.rows) = 2 /\ Len(ValidRows) = 1
    /\ Len(load.calls) = 1 /\ load.derived = 1 /\ Len(df) = 1


\* ------------------------------------------- claims on the watcher, cont.

\* C19: a change notification for a path other than the watched log file
\* changes neither byte_offset nor the Dataset.
C19_OtherPathsIgnored ==
    [][(last' # last /\ last'.src_path \notin {None, LogFile})
           => (current_size' = current_size /\ df' = df)]_vars

\* C20: while the watched file exists and has only been appended to,
\* byte_offset never decreases and, once the watcher has started, never
\* exceeds the length of the file.
C20_OffsetWithinFile ==
    [][(Exists /\ Exists' /\ ~rotated')
           => /\ current_size' >= current_size
              /\ pc' # "init" => current_size' <= Len(LogContent')]_vars

====
